---- MODULE Spec2Model ----
(***************************************************************************)
(* QG3D backend (src/server.js): the three POST endpoints of the Express   *)
(* application, each request taken through the middleware registered in    *)
(* front of its route.                                                     *)
(*                                                                         *)
(*   /create-payment-intent   validation, gateway call, response           *)
(*   /webhook                 express.json(), express.raw(), signature     *)
(*                            check, event switch, response                *)
(*   /send-order-emails       validation, composition, the two sends       *)
(*                            joined by Promise.allSettled, response       *)
(*                                                                         *)
(* A request occupies one slot of Reqs.  Handlers run to their next await  *)
(* in one step (Node runs a callback to completion); the gateway call and  *)
(* the two mail sends are the suspension points, and they settle in        *)
(* separate steps, in any order, across requests.                          *)
(***************************************************************************)
EXTENDS Integers, Sequences, FiniteSets, TLC

\* ------------------------------------------------------------------ bounds

\* Request slots: how many requests one behaviour holds, concurrently or not.
MaxReqs == 2

\* The longest list of items of an order the composition is checked on.
MaxItems == 2

\* Amounts are JavaScript numbers; the model holds them as integers counted
\* in 1/Scale of a minor unit, so 49.5 is 99 when Scale is 2.
Scale == 2

\* Numeric amounts range over MinAmount - AmountSpan .. MinAmount + AmountSpan
\* (besides -1 and 0), in steps of 1/Scale.
AmountSpan == 1

\* ------------------------------------------------------ program constants

\* if (!amount || amount < 50)
MinAmount == 50

Reqs == 1..MaxReqs

\* ------------------------------------------------- JavaScript values (amount)

\* req.body.amount as the handler sees it after express.json():
\*   "absent"  undefined (the key is missing)
\*   "num"     a number, q / Scale
\*   "text"    a string that is not numeric ("abc"): truthy, NaN in arithmetic
Num(q) == [kind |-> "num", q |-> q]
AbsentAmount == [kind |-> "absent", q |-> 0]
TextAmount == [kind |-> "text", q |-> 0]
NaN == [kind |-> "nan", q |-> 0]

NumericAmounts ==
    {Num(q) : q \in {0 - Scale, 0}
                    \cup (((MinAmount - AmountSpan) * Scale) .. ((MinAmount + AmountSpan) * Scale))}

Amounts == {AbsentAmount, TextAmount} \cup NumericAmounts

\* !amount
Falsy(a) == a.kind \in {"absent", "nan"} \/ (a.kind = "num" /\ a.q = 0)

\* amount < n: a comparison with undefined or NaN is false.
LessThan(a, n) == a.kind = "num" /\ a.q < n * Scale

\* Math.round(x): the integer nearest to x, a tie going up (floor(x + 0.5));
\* NaN for undefined and for a non-numeric string.
MathRound_Floor(a) ==
    IF a.kind = "num" THEN Num((a.q \div Scale) * Scale) ELSE NaN

MathRound(a) ==
    IF a.kind = "num"
    THEN Num(((2 * a.q + Scale) \div (2 * Scale)) * Scale)
    ELSE NaN

\* The validation of /create-payment-intent: true when the request is rejected.
InvalidAmount_NoPresenceTest(a) == LessThan(a, MinAmount)

InvalidAmount_Rounded(a) == Falsy(a) \/ LessThan(MathRound(a), MinAmount)

InvalidAmount(a) == Falsy(a) \/ LessThan(a, MinAmount)

\* ------------------------------------------------------------ responses

\* What a handler sends: res.status(n).json(body) or res.status(n).send(text).
Response(status, body) == [status |-> status, body |-> body]

\* app.use((err, req, res, next) => ...): the last middleware; it answers
\* every error handed to next(err), the body parser's included.
ErrorMiddleware(env, message) ==
    Response(500, [error |-> "Erreur interne du serveur",
                   details |-> IF env = "development" THEN message ELSE "undefined"])

\* ---------------------------------------------------------------- /webhook

\* process.env.STRIPE_WEBHOOK_SECRET, and a secret that is not the configured one.
WebhookSecret == "whsec_configured"
ForeignSecret == "whsec_foreign"

SucceededType == "payment_intent.succeeded"
FailedType == "payment_intent.payment_failed"
EventTypes == {SucceededType, FailedType, "charge.refunded"}

\* The bytes of a request body: the JSON text of an event, token by token,
\* or a text cut short, which is not JSON.
EventBytes(type, data) == <<"{", type, data, "}">>
TruncatedBytes == <<"{", SucceededType>>

RawBodies ==
    {EventBytes(t, "data") : t \in EventTypes}
        \cup {EventBytes(SucceededType, "nodata"), TruncatedBytes}

\* The JSON text of an array whose one element is a string, the string being
\* the given text: ["<text>"].
ArrayBytes(text) == <<"[">> \o text \o <<"]">>
IsArrayBytes(bytes) == Len(bytes) >= 2 /\ bytes[1] = "[" /\ bytes[Len(bytes)] = "]"
ArrayElement(bytes) == SubSeq(bytes, 2, Len(bytes) - 1)

\* The array bodies a behaviour draws from: an event's text wrapped in an
\* array, for an event with and without its data object.
ArrayBodies == {ArrayBytes(EventBytes(SucceededType, d)) : d \in {"data", "nodata"}}

\* JSON.parse of a text: the event object it holds; or an array, which has
\* neither a type (reading it gives undefined) nor a data object; or a
\* SyntaxError.
JSONParse(bytes) ==
    IF Len(bytes) = 4 /\ bytes[1] = "{" /\ bytes[4] = "}"
    THEN [ok |-> TRUE, isArray |-> FALSE, type |-> bytes[2], hasData |-> bytes[3] = "data"]
    ELSE IF IsArrayBytes(bytes)
    THEN [ok |-> TRUE, isArray |-> TRUE, type |-> "undefined", hasData |-> FALSE]
    ELSE [ok |-> FALSE, isArray |-> FALSE, type |-> "", hasData |-> FALSE]

\* The stripe-signature header: the gateway's HMAC of some bytes under a
\* secret, or no header, or one that does not parse.
Sign(secret, bytes) == [scheme |-> "v1", secret |-> secret, signed |-> bytes]
NoSignature == [scheme |-> "none", secret |-> "", signed |-> <<>>]
GarbledSignature == [scheme |-> "garbled", secret |-> "", signed |-> <<>>]

\* The headers a request with these bytes may carry; the last is the genuine
\* signature of another body.
SignatureHeaders(bytes) ==
    {NoSignature, GarbledSignature, Sign(ForeignSecret, bytes),
     Sign(WebhookSecret, bytes), Sign(WebhookSecret, EventBytes(FailedType, "data"))}

\* req.body, as the middleware leaves it:
\*   kind "object"       a parsed JavaScript value ({} when nothing was parsed)
\*   kind "array"        a parsed array of one string, kept in element
\*   kind "raw"          a Buffer of the request's bytes
\*   kind "parse_error"  the parser called next(err)
\* bodyRead is the parser's mark that the request stream has been consumed.
NoValue == [ok |-> FALSE, isArray |-> FALSE, type |-> "", hasData |-> FALSE]

\* app.use(express.json()): registered for every route, in front of them all.
\* A body of its content type is read and parsed, a SyntaxError going to
\* next(err); a body of another content type is left unread and req.body is
\* not a Buffer ({} or undefined, by the version of the framework).
ExpressJson(ctype, bytes) ==
    IF ctype # "application/json"
    THEN [kind |-> "object", bodyRead |-> FALSE, bytes |-> <<>>, value |-> NoValue,
          element |-> <<>>]
    ELSE IF JSONParse(bytes).ok /\ ~JSONParse(bytes).isArray
    THEN [kind |-> "object", bodyRead |-> TRUE, bytes |-> <<>>, value |-> JSONParse(bytes),
          element |-> <<>>]
    ELSE IF JSONParse(bytes).ok
    THEN [kind |-> "array", bodyRead |-> TRUE, bytes |-> <<>>, value |-> JSONParse(bytes),
          element |-> ArrayElement(bytes)]
    ELSE [kind |-> "parse_error", bodyRead |-> TRUE, bytes |-> <<>>, value |-> NoValue,
          element |-> <<>>]

\* express.raw({type: 'application/json'}) on the route: it leaves a body that
\* has been read alone, and reads only the content type it is given.
ExpressRaw(ctype, bytes, body) ==
    IF body.bodyRead \/ ctype # "application/json"
    THEN body
    ELSE [kind |-> "raw", bodyRead |-> TRUE, bytes |-> bytes, value |-> NoValue,
          element |-> <<>>]

\* `${payload}`, the text the library signs and parses: a Buffer or a string
\* is its own text, an array of one string is that string, any other object
\* is "[object Object]".
PayloadText(body) ==
    IF body.kind = "raw" THEN body.bytes
    ELSE IF body.kind = "array" THEN body.element
    ELSE <<"[object Object]">>

\* stripe.webhooks.constructEvent(req.body, sig, webhookSecret), in the order
\* of the library's checks: the header is read first (it has to be present
\* and to hold a timestamp and a signature of the scheme); then the header
\* has to be the HMAC, under the secret, of the payload's text, the payload
\* being coerced to a string and its type not tested; the same text is then
\* parsed.  Every failure is a throw.
ConstructEvent(body, sig, secret) ==
    IF sig.scheme # "v1"
    THEN [ok |-> FALSE, error |-> "no signature in header", event |-> NoValue]
    ELSE IF sig # Sign(secret, PayloadText(body))
    THEN [ok |-> FALSE,
          error |-> IF body.kind = "raw" THEN "no matching signature"
                    ELSE "payload is not the raw body",
          event |-> NoValue]
    ELSE IF ~JSONParse(PayloadText(body)).ok
    THEN [ok |-> FALSE, error |-> "SyntaxError", event |-> NoValue]
    ELSE [ok |-> TRUE, error |-> "", event |-> JSONParse(PayloadText(body))]

\* switch (event.type): the console line of the branch taken.  The first two
\* branches read event.data.object, a TypeError when the event has no data.
Dispatch(event) ==
    IF event.type \in {SucceededType, FailedType} /\ ~event.hasData
    THEN [effects |-> <<>>, threw |-> TRUE]
    ELSE IF event.type = SucceededType
    THEN [effects |-> <<[tag |-> "succeeded", arg |-> "object.id"]>>, threw |-> FALSE]
    ELSE IF event.type = FailedType
    THEN [effects |-> <<[tag |-> "failed", arg |-> "object.id"]>>, threw |-> FALSE]
    ELSE [effects |-> <<[tag |-> "unhandled", arg |-> event.type]>>, threw |-> FALSE]

\* The route handler, given req.body as the middleware left it.  Only
\* constructEvent is inside the try: a throw of the switch leaves the async
\* handler without a response having been sent.
WebhookHandler(body, sig) ==
    LET ev == ConstructEvent(body, sig, WebhookSecret)
        d == Dispatch(ev.event)
        verify == <<IF body.kind = "raw" THEN "verify_raw" ELSE "verify_parsed">>
    IN  IF ~ev.ok
        THEN [resp |-> <<Response(400, [text |-> "Webhook Error", message |-> ev.error])>>,
              log |-> <<[tag |-> "signature_failed", arg |-> ev.error]>>,
              steps |-> verify]
        ELSE IF d.threw
        THEN [resp |-> <<>>, log |-> d.effects, steps |-> verify]
        ELSE [resp |-> <<Response(200, [received |-> TRUE])>>,
              log |-> d.effects, steps |-> verify]

\* One POST /webhook, through express.json(), express.raw() and the handler.
WebhookPipeline(ctype, bytes, sig, env) ==
    LET parsed == ExpressJson(ctype, bytes)
        body == ExpressRaw(ctype, bytes, parsed)
        h == WebhookHandler(body, sig)
        before == (IF ctype = "application/json" THEN <<"json_parse">> ELSE <<>>)
                      \o (IF body.kind = "raw" THEN <<"raw_read">> ELSE <<>>)
    IN  IF parsed.kind = "parse_error"
        THEN [resp |-> <<ErrorMiddleware(env, "SyntaxError")>>,
              log |-> <<[tag |-> "server_error", arg |-> "SyntaxError"]>>,
              steps |-> <<"json_parse">>]
        ELSE [resp |-> h.resp, log |-> h.log, steps |-> before \o h.steps]

\* The requests to /webhook a behaviour draws from: every body under every
\* header with the JSON content type, every array body under the signature of
\* its bytes and under the signature of its element, and an unsigned and a
\* signed event under another content type.
WebhookRequests ==
    UNION {{<<"application/json", b, h>> : h \in SignatureHeaders(b)} : b \in RawBodies}
        \cup UNION {{<<"application/json", b, Sign(WebhookSecret, t)>> :
                        t \in {b, ArrayElement(b)}} : b \in ArrayBodies}
        \cup {<<"text/plain", EventBytes(SucceededType, "data"), h>> :
                h \in {NoSignature, Sign(WebhookSecret, EventBytes(SucceededType, "data"))}}

\* ------------------------------------------------- /create-payment-intent

\* The outcome of stripe.paymentIntents.create is the gateway's; it creates
\* an intent only for a positive whole number of minor units.
GatewayAccepts(amount) == amount.kind = "num" /\ amount.q > 0 /\ amount.q % Scale = 0

\* The message of the error the gateway throws for a call.
GatewayError(amount) ==
    IF GatewayAccepts(amount) THEN "connection error" ELSE "Invalid integer"

\* req.body.metadata, {} when the key is missing: a mapping from keys to
\* strings.
EmptyMetadata == [k \in {} |-> ""]
ProvenanceKey == "integration_source"
ProvenanceTag == "qg3d-website"

Metadatas ==
    {EmptyMetadata,
     [k \in {"order_id"} |-> "A17"],
     [k \in {ProvenanceKey} |-> "caller"],
     [k \in {"order_id", ProvenanceKey} |-> IF k = "order_id" THEN "A17" ELSE "caller"]}

\* {...metadata, integration_source: 'qg3d-website'}: the later key wins.
ForwardedMetadata_CallerWins(m) ==
    [k \in DOMAIN m \cup {ProvenanceKey} |-> IF k \in DOMAIN m THEN m[k] ELSE ProvenanceTag]

ForwardedMetadata(m) ==
    [k \in DOMAIN m \cup {ProvenanceKey} |-> IF k = ProvenanceKey THEN ProvenanceTag ELSE m[k]]

\* stripe.paymentIntents.create({amount: Math.round(amount), ..., metadata: {...}}):
\* the call as issued, with no intent and no error yet.
GatewayCall(a, m) ==
    [amount |-> MathRound(a), metadata |-> ForwardedMetadata(m),
     state |-> "pending", intent |-> 0, error |-> ""]

\* The requests to /create-payment-intent a behaviour draws from: every
\* amount without metadata, and the minimum amount under every metadata.
PayRequests ==
    {<<a, EmptyMetadata>> : a \in Amounts}
        \cup {<<Num(MinAmount * Scale), m>> : m \in Metadatas}

InvalidAmountResponse == Response(400, [error |-> "Le montant minimum est de 0.50"])

\* res.json({clientSecret: paymentIntent.client_secret, paymentIntentId: paymentIntent.id})
\* for the intent the awaited call returned.
IntentResponse_First(intent) ==
    Response(200, [clientSecret |-> <<"secret", 1>>, paymentIntentId |-> <<"pi", 1>>])

IntentResponse(intent) ==
    Response(200, [clientSecret |-> <<"secret", intent>>, paymentIntentId |-> <<"pi", intent>>])

GatewayErrorResponse_Generic(message) ==
    Response(500, [error |-> "Erreur lors de la creation du paiement", details |-> "undefined"])

GatewayErrorResponse(message) ==
    Response(500, [error |-> "Erreur lors de la creation du paiement", details |-> message])

\* ------------------------------------------------------ /send-order-emails

\* An optional string field of the order (paymentId, orderNotes): undefined,
\* or a string, which may be empty.
AbsentText == [set |-> FALSE, text |-> ""]
Text(t) == [set |-> TRUE, text |-> t]
OptionalTexts(t) == {AbsentText, Text(""), Text(t)}

\* value || ..., value ? ... : ...
Truthy(v) == v.set /\ v.text # ""

\* The items an order may list, and the lists of at most MaxItems of them.
Items ==
    {[quantity |-> 1, name |-> "vase", price |-> 12],
     [quantity |-> 2, name |-> "hook", price |-> 3]}
ItemLists == UNION {[1..n -> Items] : n \in 0..MaxItems}
TwoItems ==
    <<[quantity |-> 1, name |-> "vase", price |-> 12],
      [quantity |-> 2, name |-> "hook", price |-> 3]>>

\* req.body.orderData: missing, or an order that has or lacks the parts the
\* composition reads (items, shippingAddress, a numeric total).
FullOrder(hasItems, items, address, total, paymentId, notes) ==
    [present |-> TRUE, hasItems |-> hasItems, items |-> items, hasAddress |-> address,
     totalIsNumber |-> total, paymentId |-> paymentId, notes |-> notes]
Order(items, address, total) ==
    FullOrder(items, IF items THEN TwoItems ELSE <<>>, address, total, Text("pi_3"), AbsentText)
NoOrder ==
    [present |-> FALSE, hasItems |-> FALSE, items |-> <<>>, hasAddress |-> FALSE,
     totalIsNumber |-> FALSE, paymentId |-> AbsentText, notes |-> AbsentText]

Orders ==
    {NoOrder, Order(TRUE, TRUE, TRUE), Order(FALSE, TRUE, TRUE),
     Order(TRUE, FALSE, TRUE), Order(TRUE, TRUE, FALSE)}

\* The orders the composition is checked on: every list of items, with and
\* without each part, under every payment identifier and every note.
ComposeOrders ==
    {NoOrder}
        \cup {FullOrder(TRUE, l, a, t, p, n) :
                l \in ItemLists, a \in BOOLEAN, t \in BOOLEAN,
                p \in OptionalTexts("pi_3"), n \in OptionalTexts("fragile")}
        \cup {FullOrder(FALSE, <<>>, a, t, p, n) :
                a \in BOOLEAN, t \in BOOLEAN,
                p \in OptionalTexts("pi_3"), n \in OptionalTexts("fragile")}

\* `${item.quantity}x ${item.name} - ${item.price}E`
ItemLine(item) ==
    <<ToString(item.quantity), "x ", item.name, " - ", ToString(item.price), "E">>

\* orderData.items.map(...).join('\n'): the lines, in the order of the items.
ItemsList(items) == [i \in 1..Len(items) |-> ItemLine(items[i])]

\* The shipping address block: name, street, postal code and city, country, phone.
ShippingAddress ==
    <<"firstName lastName", "street", "zip city", "country", "Telephone: phone">>

Part(name, text) == [part |-> name, text |-> text]

\* customerEmail: the parts of its html that come from the order, in order.
CustomerMessage(order) ==
    [to |-> "orderData.customerEmail",
     subject |-> "Confirmation de commande",
     html |-> <<Part("greeting", "firstName"),
                Part("orderNumber", "orderNumber"),
                Part("date", "toLocaleDateString"),
                Part("total", "total.toFixed(2)"),
                Part("items", ItemsList(order.items)),
                Part("address", ShippingAddress)>>]

\* adminEmail: likewise; orderData.paymentId || 'N/A', and the notes section
\* only for truthy orderNotes.
AdminMessage_NotesAlways(order) ==
    [to |-> "qg3dprint@gmail.com",
     subject |-> "Nouvelle commande",
     html |-> <<Part("orderNumber", "orderNumber"),
                Part("total", "total.toFixed(2)"),
                Part("customer", "firstName lastName customerEmail phone"),
                Part("items", ItemsList(order.items)),
                Part("address", ShippingAddress),
                Part("paymentId", IF Truthy(order.paymentId) THEN order.paymentId.text ELSE "N/A"),
                Part("amount", "total.toFixed(2)"),
                Part("notes", order.notes.text)>>]

AdminMessage(order) ==
    [to |-> "qg3dprint@gmail.com",
     subject |-> "Nouvelle commande",
     html |-> <<Part("orderNumber", "orderNumber"),
                Part("total", "total.toFixed(2)"),
                Part("customer", "firstName lastName customerEmail phone"),
                Part("items", ItemsList(order.items)),
                Part("address", ShippingAddress),
                Part("paymentId", IF Truthy(order.paymentId) THEN order.paymentId.text ELSE "N/A"),
                Part("amount", "total.toFixed(2)")>>
                \o (IF Truthy(order.notes) THEN <<Part("notes", order.notes.text)>> ELSE <<>>)]

\* The composition of the two messages: orderData.items.map, then the
\* shipping address, then orderData.total.toFixed; each a TypeError when the
\* part is missing.  mail is the pair handed to the sends.
Compose(order) ==
    IF ~order.hasItems THEN [ok |-> FALSE, error |-> "TypeError: items", mail |-> <<>>]
    ELSE IF ~order.hasAddress THEN [ok |-> FALSE, error |-> "TypeError: shippingAddress", mail |-> <<>>]
    ELSE IF ~order.totalIsNumber THEN [ok |-> FALSE, error |-> "TypeError: total.toFixed", mail |-> <<>>]
    ELSE [ok |-> TRUE, error |-> "", mail |-> <<CustomerMessage(order), AdminMessage(order)>>]

\* A send is "none" (never issued), "pending", "fulfilled" or "rejected".
NoSends == [customer |-> "none", admin |-> "none"]

\* [transporter.sendMail(customerEmail), transporter.sendMail(adminEmail)]
IssueSends_CustomerOnly == [customer |-> "pending", admin |-> "none"]

IssueSends == [customer |-> "pending", admin |-> "pending"]

\* await Promise.allSettled([...]): the handler resumes when neither send is
\* pending any more.
SendsJoined_Any(s) == s.customer \in {"fulfilled", "rejected"} \/ s.admin \in {"fulfilled", "rejected"}

SendsJoined(s) == s.customer \in {"fulfilled", "rejected"} /\ s.admin \in {"fulfilled", "rejected"}

\* results[0].status === 'fulfilled', results[1].status === 'fulfilled', res.json
EmailsResponse_All(s) ==
    IF s.customer = "fulfilled" /\ s.admin = "fulfilled"
    THEN Response(200, [success |-> TRUE, customerEmailSent |-> TRUE, adminEmailSent |-> TRUE])
    ELSE Response(500, [success |-> FALSE, customerEmailSent |-> FALSE, adminEmailSent |-> FALSE])

EmailsResponse(s) ==
    Response(200, [success |-> TRUE,
                   customerEmailSent |-> (s.customer = "fulfilled"),
                   adminEmailSent |-> (s.admin = "fulfilled")])

MissingOrderResponse == Response(400, [error |-> "Donnees de commande manquantes"])

EmailsErrorResponse(message) ==
    Response(500, [error |-> "Erreur lors de l'envoi des emails", details |-> message])

\* ------------------------------------------------------------------- state

VARIABLES
    nodeEnv,    \* process.env.NODE_ENV
    req,        \* per slot: the request received
    pc,         \* per slot: "idle", "awaitGateway", "awaitSends", "done"
    resp,       \* per slot: the responses sent, in order
    log,        \* per slot: the console lines of the request, in order
    steps,      \* per slot: what the /webhook pipeline did with the body, in order
    gateway,    \* per slot: the gateway calls the request made, in order
    created,    \* the gateway's count of the intents it has created
    mail,       \* per slot: the messages composed and handed to the sends
    sends       \* per slot: the two notification sends

vars == <<nodeEnv, req, pc, resp, log, steps, gateway, created, mail, sends>>

NoRequest ==
    [route |-> "none", amount |-> AbsentAmount, metadata |-> EmptyMetadata,
     ctype |-> "", bytes |-> <<>>, sig |-> NoSignature, order |-> NoOrder]

PayRequest(a, m) == [NoRequest EXCEPT !.route = "pay", !.amount = a, !.metadata = m]
WebhookRequest(c, b, h) == [NoRequest EXCEPT !.route = "webhook", !.ctype = c, !.bytes = b, !.sig = h]
EmailsRequest(o) == [NoRequest EXCEPT !.route = "emails", !.order = o]

Init ==
    /\ nodeEnv \in {"development", "production"}
    /\ req = [r \in Reqs |-> NoRequest]
    /\ pc = [r \in Reqs |-> "idle"]
    /\ resp = [r \in Reqs |-> <<>>]
    /\ log = [r \in Reqs |-> <<>>]
    /\ steps = [r \in Reqs |-> <<>>]
    /\ gateway = [r \in Reqs |-> <<>>]
    /\ created = 0
    /\ mail = [r \in Reqs |-> <<>>]
    /\ sends = [r \in Reqs |-> NoSends]

\* POST /create-payment-intent, up to the await of the gateway call.
CreatePaymentIntent(r) ==
    /\ pc[r] = "idle"
    /\ \E p \in PayRequests :
        /\ req' = [req EXCEPT ![r] = PayRequest(p[1], p[2])]
        /\ IF InvalidAmount(p[1])
           THEN /\ resp' = [resp EXCEPT ![r] = Append(resp[r], InvalidAmountResponse)]
                /\ pc' = [pc EXCEPT ![r] = "done"]
                /\ UNCHANGED gateway
           ELSE /\ gateway' = [gateway EXCEPT ![r] = Append(gateway[r], GatewayCall(p[1], p[2]))]
                /\ pc' = [pc EXCEPT ![r] = "awaitGateway"]
                /\ UNCHANGED resp
    /\ UNCHANGED <<nodeEnv, log, steps, created, mail, sends>>

\* The gateway creates the intent and returns it; the handler resumes and
\* answers with the intent it was returned.
GatewayResolves(r) ==
    /\ pc[r] = "awaitGateway"
    /\ GatewayAccepts(gateway[r][Len(gateway[r])].amount)
    /\ created' = created + 1
    /\ gateway' = [gateway EXCEPT ![r][Len(gateway[r])].state = "resolved",
                                  ![r][Len(gateway[r])].intent = created + 1]
    /\ resp' = [resp EXCEPT ![r] = Append(resp[r], IntentResponse(created + 1))]
    /\ pc' = [pc EXCEPT ![r] = "done"]
    /\ UNCHANGED <<nodeEnv, req, log, steps, mail, sends>>

\* The gateway call fails; the handler's catch logs and answers.
GatewayRejects_Retry(r) ==
    /\ pc[r] = "awaitGateway"
    /\ Len(gateway[r]) < 3
    /\ gateway' = [gateway EXCEPT ![r] =
                      Append([@ EXCEPT ![Len(@)].state = "rejected"],
                             GatewayCall(req[r].amount, req[r].metadata))]
    /\ UNCHANGED <<nodeEnv, req, pc, resp, log, steps, created, mail, sends>>

GatewayRejects(r) ==
    /\ pc[r] = "awaitGateway"
    /\ LET message == GatewayError(gateway[r][Len(gateway[r])].amount)
       IN  /\ gateway' = [gateway EXCEPT ![r][Len(gateway[r])].state = "rejected",
                                         ![r][Len(gateway[r])].error = message]
           /\ resp' = [resp EXCEPT ![r] = Append(resp[r], GatewayErrorResponse(message))]
           /\ log' = [log EXCEPT ![r] = Append(log[r], [tag |-> "payment_error", arg |-> message])]
    /\ pc' = [pc EXCEPT ![r] = "done"]
    /\ UNCHANGED <<nodeEnv, req, steps, created, mail, sends>>

\* POST /webhook: no await between the request's arrival and its response.
Webhook(r) ==
    /\ pc[r] = "idle"
    /\ \E w \in WebhookRequests :
        LET out == WebhookPipeline(w[1], w[2], w[3], nodeEnv)
        IN  /\ req' = [req EXCEPT ![r] = WebhookRequest(w[1], w[2], w[3])]
            /\ resp' = [resp EXCEPT ![r] = out.resp]
            /\ log' = [log EXCEPT ![r] = out.log]
            /\ steps' = [steps EXCEPT ![r] = out.steps]
    /\ pc' = [pc EXCEPT ![r] = "done"]
    /\ UNCHANGED <<nodeEnv, gateway, created, mail, sends>>

\* POST /send-order-emails, up to the await of Promise.allSettled, for an
\* order of the given set.
SendOrderEmailsOf(r, orders) ==
    /\ pc[r] = "idle"
    /\ \E o \in orders :
        /\ req' = [req EXCEPT ![r] = EmailsRequest(o)]
        /\ IF ~o.present
           THEN /\ resp' = [resp EXCEPT ![r] = Append(resp[r], MissingOrderResponse)]
                /\ pc' = [pc EXCEPT ![r] = "done"]
                /\ UNCHANGED <<log, mail, sends>>
           ELSE IF ~Compose(o).ok
           THEN /\ resp' = [resp EXCEPT ![r] = Append(resp[r], EmailsErrorResponse(Compose(o).error))]
                /\ log' = [log EXCEPT ![r] = <<[tag |-> "emails_start", arg |-> "orderNumber"],
                                               [tag |-> "emails_error", arg |-> Compose(o).error]>>]
                /\ pc' = [pc EXCEPT ![r] = "done"]
                /\ UNCHANGED <<mail, sends>>
           ELSE /\ mail' = [mail EXCEPT ![r] = Compose(o).mail]
                /\ sends' = [sends EXCEPT ![r] = IssueSends]
                /\ log' = [log EXCEPT ![r] = <<[tag |-> "emails_start", arg |-> "orderNumber"]>>]
                /\ pc' = [pc EXCEPT ![r] = "awaitSends"]
                /\ UNCHANGED resp
    /\ UNCHANGED <<nodeEnv, steps, gateway, created>>

SendOrderEmails(r) == SendOrderEmailsOf(r, Orders)

\* The transport settles one pending send, either way.
SendSettles(r) ==
    /\ pc[r] = "awaitSends"
    /\ \E who \in {"customer", "admin"}, outcome \in {"fulfilled", "rejected"} :
        /\ sends[r][who] = "pending"
        /\ sends' = [sends EXCEPT ![r][who] = outcome]
    /\ UNCHANGED <<nodeEnv, req, pc, resp, log, steps, gateway, created, mail>>

\* Promise.allSettled has settled: the handler resumes and answers.
SendOrderEmailsResumes(r) ==
    /\ pc[r] = "awaitSends"
    /\ SendsJoined(sends[r])
    /\ resp' = [resp EXCEPT ![r] = Append(resp[r], EmailsResponse(sends[r]))]
    /\ log' = [log EXCEPT ![r] = log[r] \o
                  <<[tag |-> "email_client", arg |-> sends[r].customer],
                    [tag |-> "email_admin", arg |-> sends[r].admin]>>]
    /\ pc' = [pc EXCEPT ![r] = "done"]
    /\ UNCHANGED <<nodeEnv, req, steps, gateway, created, mail, sends>>

Next ==
    \E r \in Reqs :
        \/ CreatePaymentIntent(r)
        \/ GatewayResolves(r)
        \/ GatewayRejects(r)
        \/ Webhook(r)
        \/ SendOrderEmails(r)
        \/ SendSettles(r)
        \/ SendOrderEmailsResumes(r)

Spec == Init /\ [][Next]_vars

\* The event loop runs a handler's continuation once the promise it awaits
\* has settled; when a send settles is the transport's affair.
SpecLive == Spec /\ \A r \in Reqs : WF_vars(SendOrderEmailsResumes(r))

\* The composition alone: one request to /send-order-emails, taken up to the
\* await, for every order of ComposeOrders.
ComposeOrder == SendOrderEmailsOf(1, ComposeOrders)

SpecCompose == Init /\ [][ComposeOrder]_vars

\* ------------------------------------------------------------ properties

Webhooks == {r \in Reqs : req[r].route = "webhook"}
Payments == {r \in Reqs : req[r].route = "pay"}
Emails == {r \in Reqs : req[r].route = "emails"}

\* The header of the request is the gateway's signature of the request's own
\* bytes under the configured secret.
GenuinelySigned(q) == q.sig = Sign(WebhookSecret, q.bytes)

\* The request carries a genuinely signed event of the given type.
SignedEvent(q) ==
    GenuinelySigned(q) /\ JSONParse(q.bytes).ok /\ ~JSONParse(q.bytes).isArray

\* The console lines of the event switch, among the lines of a request.
IsDispatcherLine(l) == l.tag \in {"succeeded", "failed", "unhandled"}
DispatcherLines(r) == SelectSeq(log[r], IsDispatcherLine)

Acknowledged(r) == resp[r] = <<Response(200, [received |-> TRUE])>>

\* C1: a /webhook request whose signature does not verify against the
\* configured secret is answered with HTTP 400, and no branch of the event
\* switch runs for it.
C1_UnverifiedAnswered400 ==
    \A r \in Webhooks :
        ~GenuinelySigned(req[r]) =>
            /\ Len(resp[r]) = 1
            /\ resp[r][1].status = 400
            /\ DispatcherLines(r) = <<>>

\* C2: through the whole pipeline of a /webhook request, the signature is
\* verified over the raw bytes of the body, and no JSON parsing of the body
\* comes before that verification.
C2_VerifiedOverRawBeforeParsing ==
    \A r \in Webhooks :
        /\ \E i \in 1..Len(steps[r]) : steps[r][i] = "verify_raw"
        /\ \A i \in 1..Len(steps[r]) :
              /\ steps[r][i] # "verify_parsed"
              /\ steps[r][i] = "json_parse" =>
                    \E j \in 1..(i - 1) : steps[r][j] = "verify_raw"

\* C3: a genuinely signed payment-succeeded event runs the success path of
\* the event switch exactly once and is answered with {received: true}.
C3_SignedSuccessDispatchedOnce ==
    \A r \in Webhooks :
        (/\ SignedEvent(req[r])
         /\ JSONParse(req[r].bytes).type = SucceededType
         /\ JSONParse(req[r].bytes).hasData) =>
            /\ Len(SelectSeq(log[r], LAMBDA l : l.tag = "succeeded")) = 1
            /\ Acknowledged(r)

\* C4: an authenticated event emits exactly one side effect of the event
\* switch, the one its type selects: success, failure, or the unhandled-type
\* line carrying the type as received.
ExpectedLine(event) ==
    IF event.type = SucceededType THEN [tag |-> "succeeded", arg |-> "object.id"]
    ELSE IF event.type = FailedType THEN [tag |-> "failed", arg |-> "object.id"]
    ELSE [tag |-> "unhandled", arg |-> event.type]

C4_OneEffectSelectedByType ==
    \A r \in Webhooks :
        SignedEvent(req[r]) =>
            DispatcherLines(r) = <<ExpectedLine(JSONParse(req[r].bytes))>>

\* C5: a /webhook request whose signature verifies is acknowledged with
\* HTTP 200 {received: true} whatever the type of its event, an unhandled
\* type included.
C5_VerifiedAcknowledged ==
    \A r \in Webhooks :
        (SignedEvent(req[r]) /\ JSONParse(req[r].bytes).hasData) =>
            /\ Len(resp[r]) = 1
            /\ resp[r][1].status = 200
            /\ resp[r][1].body = [received |-> TRUE]

\* C6: a /create-payment-intent request whose amount is absent, zero or
\* below 50 minor units is answered with HTTP 400 and the minimum-amount
\* message, and the gateway is never called for it.
BelowMinimum(a) == a.kind = "absent" \/ (a.kind = "num" /\ a.q < MinAmount * Scale)

C6_BelowMinimumRejected ==
    \A r \in Payments :
        BelowMinimum(req[r].amount) =>
            /\ Len(resp[r]) = 1
            /\ resp[r][1].status = 400
            /\ resp[r][1].body.error = "Le montant minimum est de 0.50"
            /\ gateway[r] = <<>>

C6_Witness ==
    \E r \in Payments :
        /\ req[r].amount.kind = "num"
        /\ req[r].amount.q > 0
        /\ req[r].amount.q < MinAmount * Scale
        /\ pc[r] = "done"

\* The amount, rounded to the nearest integer, is at least 50: it is at
\* least 49.5.
RoundsToMinimum(a) == a.kind = "num" /\ 2 * a.q + Scale >= 2 * Scale * MinAmount

Accepted(r) == gateway[r] # <<>>

\* C7, as stated: a request with a numeric or missing amount reaches the
\* gateway exactly when the amount is present and, rounded to the nearest
\* integer, is at least 50.
C7_AcceptedIffRoundedAtLeastMin ==
    \A r \in Payments :
        req[r].amount.kind \in {"absent", "num"} =>
            (Accepted(r) <=> RoundsToMinimum(req[r].amount))

\* C7, amended: a request reaches the gateway exactly when its amount is
\* present and, as received, is not below 50; the minimum is applied to the
\* raw value, so an amount from 49.5 up to 50 is rejected although it rounds
\* to 50, and a non-numeric string, which is not below 50, passes.
C7_AcceptedIffRawAtLeastMin ==
    \A r \in Payments :
        /\ Accepted(r) <=>
              \/ req[r].amount.kind = "text"
              \/ req[r].amount.kind = "num" /\ req[r].amount.q >= MinAmount * Scale
        /\ ~Accepted(r) => Len(resp[r]) = 1 /\ resp[r][1].status = 400

C7_Witness ==
    \E r \in Payments :
        /\ RoundsToMinimum(req[r].amount)
        /\ req[r].amount.q < MinAmount * Scale
        /\ Len(resp[r]) = 1
        /\ resp[r][1].status = 400

\* C8: for an accepted numeric amount a >= 50 the gateway is given round(a):
\* a whole number of minor units, at least 50, nearest to a, the upper one
\* of the two when a lies halfway; never the fractional value itself.
C8_ForwardedIsRounded ==
    \A r \in Payments :
        (/\ Accepted(r)
         /\ req[r].amount.kind = "num"
         /\ req[r].amount.q >= MinAmount * Scale) =>
            LET a == req[r].amount.q
                f == gateway[r][1].amount
            IN  /\ Len(gateway[r]) = 1
                /\ f.kind = "num"
                /\ f.q % Scale = 0
                /\ f.q >= MinAmount * Scale
                /\ 2 * (f.q - a) <= Scale
                /\ 2 * (a - f.q) < Scale

C8_Witness ==
    \E r \in Payments :
        /\ Accepted(r)
        /\ req[r].amount.kind = "num"
        /\ req[r].amount.q > MinAmount * Scale
        /\ req[r].amount.q % Scale # 0
        /\ gateway[r][1].amount.q # req[r].amount.q

\* C9: once a /send-order-emails request reaches dispatch both sends are
\* issued, and the response reports each send by its own outcome:
\* customerEmailSent iff the customer send succeeded, adminEmailSent iff the
\* admin send succeeded.
Dispatched(r) == sends[r] # NoSends

C9_EachSendReportedByItself ==
    \A r \in Emails :
        /\ (pc[r] = "awaitSends" \/ Dispatched(r)) =>
              sends[r].customer # "none" /\ sends[r].admin # "none"
        /\ (Dispatched(r) /\ resp[r] # <<>>) =>
              /\ resp[r][1].body.customerEmailSent = (sends[r].customer = "fulfilled")
              /\ resp[r][1].body.adminEmailSent = (sends[r].admin = "fulfilled")

C9_Witness ==
    \E r \in Emails :
        /\ sends[r] = [customer |-> "rejected", admin |-> "fulfilled"]
        /\ resp[r] # <<>>
        /\ resp[r][1].body.customerEmailSent = FALSE
        /\ resp[r][1].body.adminEmailSent = TRUE

\* C10: once /send-order-emails has attempted both sends, its response is
\* 200 {success: true} whatever the two outcomes, never a 500, and it is
\* sent only after both sends have settled.
Settled(x) == x \in {"fulfilled", "rejected"}

C10_DispatchAlwaysSucceeds ==
    \A r \in Emails :
        Dispatched(r) =>
            /\ Len(resp[r]) <= 1
            /\ resp[r] # <<>> =>
                  /\ resp[r][1].status = 200
                  /\ resp[r][1].body.success = TRUE
                  /\ Settled(sends[r].customer)
                  /\ Settled(sends[r].admin)
            /\ pc[r] = "done" => resp[r] # <<>>

C10_Witness ==
    \E r \in Emails :
        /\ sends[r] = [customer |-> "rejected", admin |-> "rejected"]
        /\ Len(resp[r]) = 1
        /\ resp[r][1].status = 200
        /\ resp[r][1].body.success = TRUE

\* C11: when the gateway call of a /create-payment-intent request fails, the
\* request is answered with a 5xx response that carries the gateway's
\* message, never with a success response.
C11_GatewayFailureAnswered5xx ==
    \A r \in Payments :
        \A i \in 1..Len(gateway[r]) :
            gateway[r][i].state = "rejected" =>
                /\ gateway[r][i].error # ""
                /\ Len(resp[r]) = 1
                /\ resp[r][1].status >= 500
                /\ resp[r][1].body.details = gateway[r][i].error

C11_Witness ==
    \E r \in Payments :
        /\ Accepted(r)
        /\ gateway[r][1].state = "rejected"
        /\ gateway[r][1].error = "connection error"
        /\ Len(resp[r]) = 1
        /\ resp[r][1].status = 500

\* C12: a /create-payment-intent request calls the gateway exactly once when
\* validation passes and never when it fails; a failed call is not retried,
\* and the gateway has created no more intents than calls have resolved.
C12_GatewayCalledAtMostOnce ==
    /\ \A r \in Reqs :
          Len(gateway[r]) =
              IF /\ req[r].route = "pay"
                 /\ \/ req[r].amount.kind = "text"
                    \/ req[r].amount.kind = "num" /\ req[r].amount.q >= MinAmount * Scale
              THEN 1 ELSE 0
    /\ created = Cardinality({r \in Reqs : Accepted(r) /\ gateway[r][1].state = "resolved"})

C12_Witness ==
    \E r \in Payments :
        /\ pc[r] = "done"
        /\ Len(gateway[r]) = 1
        /\ gateway[r][1].state = "rejected"

\* C13: the metadata given to the gateway always holds integration_source
\* with the fixed tag, and every other key of the caller with the caller's
\* value; only a caller's integration_source is overwritten.
C13_ProvenanceTagAdded ==
    \A r \in Payments :
        Accepted(r) =>
            LET sent == gateway[r][1].metadata
                given == req[r].metadata
            IN  /\ ProvenanceKey \in DOMAIN sent
                /\ sent[ProvenanceKey] = ProvenanceTag
                /\ \A k \in DOMAIN given \ {ProvenanceKey} :
                      k \in DOMAIN sent /\ sent[k] = given[k]

C13_Witness ==
    \E r \in Payments :
        /\ Accepted(r)
        /\ DOMAIN req[r].metadata = {"order_id", ProvenanceKey}
        /\ req[r].metadata[ProvenanceKey] = "caller"
        /\ gateway[r][1].metadata["order_id"] = "A17"
        /\ gateway[r][1].metadata[ProvenanceKey] = ProvenanceTag

\* C14: an unexpected exception while handling a request, such as a
\* malformed order that makes composing fail, is answered with a 500 whose
\* body carries no internal detail unless the process runs in development
\* mode.
ComposingFails(o) == o.present /\ ~(o.hasItems /\ o.hasAddress /\ o.totalIsNumber)

C14_UnexpectedErrorsWithheld ==
    \A r \in Emails :
        ComposingFails(req[r].order) =>
            /\ Len(resp[r]) = 1
            /\ resp[r][1].status = 500
            /\ nodeEnv # "development" => resp[r][1].body.details = "undefined"

\* C15: the customer message has no payment identifier; the admin message
\* has the order's payment identifier, or the not-available marker when the
\* order has none; and the admin message has a notes section, with the
\* notes, iff the order has non-empty notes.
PartsNamed(html, name) == SelectSeq(html, LAMBDA x : x.part = name)

C15_PaymentIdAndNotesPlacement ==
    \A r \in Emails :
        mail[r] # <<>> =>
            LET o == req[r].order
                customer == mail[r][1].html
                admin == mail[r][2].html
            IN  /\ Len(mail[r]) = 2
                /\ PartsNamed(customer, "paymentId") = <<>>
                /\ PartsNamed(customer, "notes") = <<>>
                /\ Len(PartsNamed(admin, "paymentId")) = 1
                /\ PartsNamed(admin, "paymentId")[1].text =
                      IF o.paymentId.set /\ o.paymentId.text # ""
                      THEN o.paymentId.text ELSE "N/A"
                /\ Len(PartsNamed(admin, "notes")) =
                      IF o.notes.set /\ o.notes.text # "" THEN 1 ELSE 0
                /\ \A i \in 1..Len(PartsNamed(admin, "notes")) :
                      PartsNamed(admin, "notes")[i].text = o.notes.text

C15_Witness ==
    \E r \in Emails :
        /\ mail[r] # <<>>
        /\ req[r].order.paymentId = AbsentText
        /\ req[r].order.notes = Text("")
        /\ Len(req[r].order.items) = 2
        /\ PartsNamed(mail[r][2].html, "paymentId")[1].text = "N/A"
        /\ PartsNamed(mail[r][2].html, "notes") = <<>>

\* C16: requests do not interfere.  A response is made of the request's own
\* data: a /send-order-emails response reports the request's own two sends,
\* a /create-payment-intent response carries the identifier and the secret
\* of the intent created for this request, which no other request has; and
\* under every interleaving a step touches one request only and never
\* changes a response already sent.
Slot(r) == <<req[r], pc[r], resp[r], log[r], steps[r], gateway[r], mail[r], sends[r]>>

OwnResponse ==
    \A r \in Reqs :
        resp[r] # <<>> =>
            /\ (req[r].route = "pay" /\ resp[r][1].status = 200) =>
                  /\ gateway[r][1].intent > 0
                  /\ resp[r][1].body = [clientSecret |-> <<"secret", gateway[r][1].intent>>,
                                        paymentIntentId |-> <<"pi", gateway[r][1].intent>>]
                  /\ \A o \in Reqs \ {r} :
                        Accepted(o) => gateway[o][1].intent # gateway[r][1].intent
            /\ (req[r].route = "emails" /\ Dispatched(r)) =>
                  resp[r][1].body = [success |-> TRUE,
                                     customerEmailSent |-> (sends[r].customer = "fulfilled"),
                                     adminEmailSent |-> (sends[r].admin = "fulfilled")]

OneRequestPerStep ==
    \A r \in Reqs :
        /\ Slot(r)' # Slot(r) => \A o \in Reqs \ {r} : Slot(o)' = Slot(o)
        /\ resp[r] # <<>> => resp'[r] = resp[r]

C17_NoSendBeforeComposition ==
    \A r \in Emails :
        /\ ~req[r].order.present =>
              /\ Len(resp[r]) = 1 /\ resp[r][1].status = 400
              /\ sends[r] = NoSends
        /\ ComposingFails(req[r].order) =>
              /\ Len(resp[r]) = 1 /\ resp[r][1].status = 500
              /\ sends[r] = NoSends
        /\ sends[r].customer = "none" <=> sends[r].admin = "none"
        /\ Dispatched(r) => Len(mail[r]) = 2

C17_Witness ==
    \E r \in Emails :
        /\ req[r].order.present
        /\ req[r].order.hasItems /\ req[r].order.hasAddress /\ ~req[r].order.totalIsNumber
        /\ Len(resp[r]) = 1 /\ resp[r][1].status = 500
        /\ sends[r] = NoSends

\* C18: the 400 'Webhook Error' answer of /webhook is given only when the
\* signature itself does not verify, never for a failure of another kind
\* (of parsing, of the event's content).
C18_WebhookErrorOnlyForBadSignature ==
    \A r \in Webhooks :
        (/\ Len(resp[r]) >= 1
         /\ resp[r][1].status = 400
         /\ resp[r][1].body.text = "Webhook Error") =>
            ~GenuinelySigned(req[r])

\* C19: a /send-order-emails request that has reached dispatch is
\* eventually answered, also when a send never completes by itself.
C19_DispatchEventuallyAnswered ==
    \A r \in Reqs : (pc[r] = "awaitSends") ~> (resp[r] # <<>>)

\* C20: a request gets exactly one response on every path: none is sent
\* before it is received, never two, and one has been sent when its
\* handling is over.
C20_ExactlyOneResponse ==
    \A r \in Reqs :
        /\ Len(resp[r]) <= 1
        /\ pc[r] = "idle" => resp[r] = <<>>
        /\ pc[r] = "done" => Len(resp[r]) = 1

====
